---- MODULE Spec2Model ----
(***************************************************************************)
(* Session lifecycle of streamlit_app.py: managed_connection (the scoped   *)
(* connection), ensure_connection_async, the list/chat helpers and the     *)
(* four interaction flows of main (process_chat, process_tools,            *)
(* process_resources, process_ping).  One interaction runs at a time       *)
(* (asyncio.run blocks the script); every interaction opens a scope of its *)
(* own, numbered 1, 2, ... in the order opened.                            *)
(***************************************************************************)
EXTENDS Integers, Sequences, FiniteSets, TLC

\* ------------------------------------------------------------------ bounds
MaxScopes  == 2     \* interactions (managed_connection scopes) explored
MaxChatOps == 2     \* requests handle_chat_mode issues in one chat exchange
MaxMsgs    == 4     \* chat turns kept in st.session_state.messages
MaxIds     == 4     \* requests issued on one Transport (correlation ids 1..MaxIds)
MaxIgnored == 2     \* responses matching no pending request that are counted

Scopes == 1..MaxScopes

Kinds == {"chat", "tools", "resources", "ping", "ensure"}

\* Control positions inside managed_connection before it yields.
OpeningPcs == {"load_config", "acquire", "send_init", "await_init"}

VARIABLES
    pc,           \* position of the running interaction
    kind,         \* which flow runs: an element of Kinds, or "none"
    cur,          \* number of the scope opened last (0: none yet)
    trans,        \* per scope: "none" | "acquired" | "released" (stdio_client)
    releases,     \* per scope: how many times stdio_client's exit ran
    init_result,  \* per scope: "unset" | "ok" | "falsy" (send_initialize's result)
    sent,         \* per scope: requests written to the Transport, in order
    handle,       \* what managed_connection yielded: "unset" | "streams" | "nullpair"
    exc,          \* exception in flight: "none" | "error" | "cancel"
    escaped,      \* exception that left the flow: "none" | "error" | "cancel"
    ret,          \* ensure_connection_async's return: "unset" | "pair" | "nullpair"
    ping_result,  \* send_ping's result: "unset" | "true" | "false"
    list_in,      \* what the list exchange produced (see ListInputs), or "unset"
    list_ret,     \* list_*_async's return value (a sequence), or "unset"
    chat_in,      \* how handle_chat_mode ended (see ChatOutcomes), or "unset"
    response,     \* handle_chat_async's return: "unset" | "text" | "none"
    op_failed,    \* a Protocol Operation of this scope failed: "none" | "local" | "transport"
    messages,     \* st.session_state.messages, as the sequence of roles
    reports,      \* UI reports (st.error / st.success) of the running interaction
    corr_next,    \* the message layer: the next fresh correlation id
    corr_pending, \* ids of the requests written and not yet answered
    corr_done,    \* per id: the request the delivered response answers (0: none yet)
    corr_order,   \* ids in the order their responses were delivered
    corr_ignored  \* responses ignored so far (counted up to MaxIgnored)

vars == <<pc, kind, cur, trans, releases, init_result, sent, handle, exc,
          escaped, ret, ping_result, list_in, list_ret, chat_in, response,
          op_failed, messages, reports, corr_next, corr_pending, corr_done,
          corr_order, corr_ignored>>

\* The state of the interaction flows, and that of the message layer.
flowvars == <<pc, kind, cur, trans, releases, init_result, sent, handle, exc,
              escaped, ret, ping_result, list_in, list_ret, chat_in, response,
              op_failed, messages, reports>>

corrvars == <<corr_next, corr_pending, corr_done, corr_order, corr_ignored>>

\* --------------------------------------------------------- session state
\* The Session has no object in the source: its state is the position of
\* managed_connection together with init_result and the Transport.
SessionStateOf(c, p, ir, tr, s) ==
    IF s > c THEN "Unopened"
    ELSE IF ir[s] = "ok"
         THEN (IF tr[s] = "acquired" THEN "Ready" ELSE "Closed")
    ELSE IF ir[s] = "unset" /\ s = c /\ p \in OpeningPcs THEN "Opening"
    ELSE "Failed"

SessionState(s) == SessionStateOf(cur, pc, init_result, trans, s)

\* One request written to the Transport of scope s; the Session's state at
\* that moment, and whether an operation of the scope had failed before it,
\* are kept with it.
Request(s, method) ==
    [method |-> method, state |-> SessionState(s), after_failure |-> op_failed]

Send(s, method) == sent' = [sent EXCEPT ![s] = Append(@, Request(s, method))]

Init ==
    /\ pc = "idle"
    /\ kind = "none"
    /\ cur = 0
    /\ trans = [s \in Scopes |-> "none"]
    /\ releases = [s \in Scopes |-> 0]
    /\ init_result = [s \in Scopes |-> "unset"]
    /\ sent = [s \in Scopes |-> <<>>]
    /\ handle = "unset"
    /\ exc = "none"
    /\ escaped = "none"
    /\ ret = "unset"
    /\ ping_result = "unset"
    /\ list_in = "unset"
    /\ list_ret = "unset"
    /\ chat_in = "unset"
    /\ response = "unset"
    /\ op_failed = "none"
    /\ messages = <<>>
    /\ reports = {}
    /\ corr_next = 1
    /\ corr_pending = {}
    /\ corr_done = [k \in 1..MaxIds |-> 0]
    /\ corr_order = <<>>
    /\ corr_ignored = 0

\* Mutation of Start: the next interaction reuses the scope (and the
\* connection slot) of the previous one instead of opening its own.
StartReusingScope(k) ==
    /\ pc \in {"idle", "done"}
    /\ k = "chat" => Len(messages) + 2 <= MaxMsgs
    /\ pc' = "load_config"
    /\ kind' = k
    /\ cur' = IF cur = 0 THEN 1 ELSE cur
    /\ handle' = "unset"
    /\ exc' = "none"
    /\ escaped' = "none"
    /\ ret' = "unset"
    /\ ping_result' = "unset"
    /\ list_in' = "unset"
    /\ list_ret' = "unset"
    /\ chat_in' = "unset"
    /\ response' = "unset"
    /\ op_failed' = "none"
    /\ reports' = {}
    /\ UNCHANGED <<trans, releases, init_result, sent, messages,
                   corrvars>>

\* ------------------------------------------------------------ interaction
\* A user interaction (chat input, a button) or a call of
\* ensure_connection_async starts a flow, which enters managed_connection.
Start(k) ==
    /\ pc \in {"idle", "done"}
    /\ cur < MaxScopes
    /\ k = "chat" => Len(messages) + 2 <= MaxMsgs
    /\ pc' = "load_config"
    /\ kind' = k
    /\ cur' = cur + 1
    /\ handle' = "unset"
    /\ exc' = "none"
    /\ escaped' = "none"
    /\ ret' = "unset"
    /\ ping_result' = "unset"
    /\ list_in' = "unset"
    /\ list_ret' = "unset"
    /\ chat_in' = "unset"
    /\ response' = "unset"
    /\ op_failed' = "none"
    /\ reports' = {}
    /\ UNCHANGED <<trans, releases, init_result, sent, messages,
                   corrvars>>

\* ------------------------------------------------------ managed_connection
Raises == {"error", "cancel"}   \* an Exception, or the task's cancellation

\* line 28: server_params = await load_config(config_path, server_name)
LoadConfig(o) ==
    /\ pc = "load_config"
    /\ IF o = "ok"
       THEN pc' = "acquire" /\ exc' = exc
       ELSE pc' = "finish" /\ exc' = o
    /\ UNCHANGED <<kind, cur, trans, releases, init_result, sent, handle,
                   escaped, ret, ping_result, list_in, list_ret, response,
                   messages, reports,
                   op_failed, chat_in,
                   corrvars>>

\* line 29, entry of "async with stdio_client(server_params)": the server
\* process is launched, or the launch fails and nothing is held.
Acquire(o) ==
    /\ pc = "acquire"
    /\ IF o = "ok"
       THEN /\ trans' = [trans EXCEPT ![cur] = "acquired"]
            /\ pc' = "send_init"
            /\ exc' = exc
       ELSE /\ trans' = trans
            /\ pc' = "finish"
            /\ exc' = o
    /\ UNCHANGED <<kind, cur, releases, init_result, sent, handle, escaped,
                   ret, ping_result, list_in, list_ret, response, messages,
                   reports,
                   op_failed, chat_in,
                   corrvars>>

\* Mutation of SendInitialize: the handshake request is never written.
SendInitializeOmitted ==
    /\ pc = "send_init"
    /\ pc' = "await_init"
    /\ UNCHANGED <<kind, cur, trans, releases, init_result, sent, handle, exc,
                   escaped, ret, ping_result, list_in, list_ret, response,
                   messages, reports, op_failed, chat_in,
                   corrvars>>

\* line 30: send_initialize writes the initialize request ...
SendInitialize ==
    /\ pc = "send_init"
    /\ Send(cur, "initialize")
    /\ pc' = "await_init"
    /\ UNCHANGED <<kind, cur, trans, releases, init_result, handle, exc,
                   escaped, ret, ping_result, list_in, list_ret, response,
                   messages, reports,
                   op_failed, chat_in,
                   corrvars>>

\* ... and suspends until its outcome.  lines 31-32: a truthy result yields
\* the stream pair.
InitOk ==
    /\ pc = "await_init"
    /\ init_result' = [init_result EXCEPT ![cur] = "ok"]
    /\ handle' = "streams"
    /\ pc' = "body"
    /\ UNCHANGED <<kind, cur, trans, releases, sent, exc, escaped, ret,
                   ping_result, list_in, list_ret, response, messages,
                   reports,
                   op_failed, chat_in,
                   corrvars>>

\* Mutation of InitFalsy: the streams are yielded although init_result is falsy.
InitFalsyYieldsStreams ==
    /\ pc = "await_init"
    /\ init_result' = [init_result EXCEPT ![cur] = "falsy"]
    /\ reports' = reports \cup {"init_failed"}
    /\ handle' = "streams"
    /\ pc' = "body"
    /\ UNCHANGED <<kind, cur, trans, releases, sent, exc, escaped, ret,
                   ping_result, list_in, list_ret, response, messages,
                   op_failed, chat_in,
                   corrvars>>

\* Mutation of InitFalsy: the failed handshake releases the Transport before
\* (None, None) is yielded.
InitFalsyReleasesEarly ==
    /\ pc = "await_init"
    /\ init_result' = [init_result EXCEPT ![cur] = "falsy"]
    /\ reports' = reports \cup {"init_failed"}
    /\ trans' = [trans EXCEPT ![cur] = "released"]
    /\ releases' = [releases EXCEPT ![cur] = @ + 1]
    /\ handle' = "nullpair"
    /\ pc' = "body"
    /\ UNCHANGED <<kind, cur, sent, exc, escaped, ret, ping_result, list_in,
                   list_ret, response, messages, op_failed, chat_in,
                   corrvars>>

\* lines 33-35: a falsy result is reported and (None, None) is yielded, still
\* inside the "async with stdio_client" block.
InitFalsy ==
    /\ pc = "await_init"
    /\ init_result' = [init_result EXCEPT ![cur] = "falsy"]
    /\ reports' = reports \cup {"init_failed"}
    /\ handle' = "nullpair"
    /\ pc' = "body"
    /\ UNCHANGED <<kind, cur, trans, releases, sent, exc, escaped, ret,
                   ping_result, list_in, list_ret, response, messages,
                   op_failed, chat_in,
                   corrvars>>

\* line 30 raising (or cancelled): nothing is yielded, the exception leaves
\* through the exit of the "async with stdio_client" block.
InitRaise(o) ==
    /\ pc = "await_init"
    /\ exc' = o
    /\ pc' = "release"
    /\ UNCHANGED <<kind, cur, trans, releases, init_result, sent, handle,
                   escaped, ret, ping_result, list_in, list_ret, response,
                   messages, reports,
                   op_failed, chat_in,
                   corrvars>>

\* Mutation of Release: the Transport is released on the normal path only,
\* not when an exception passes through.
ReleaseOnlyOnNormalExit ==
    /\ pc = "release"
    /\ trans' = IF exc = "none" THEN [trans EXCEPT ![cur] = "released"] ELSE trans
    /\ releases' = IF exc = "none" THEN [releases EXCEPT ![cur] = @ + 1] ELSE releases
    /\ pc' = "finish"
    /\ UNCHANGED <<kind, cur, init_result, sent, handle, exc, escaped, ret,
                   ping_result, list_in, list_ret, response, messages,
                   reports, op_failed, chat_in,
                   corrvars>>

\* line 29, exit of "async with stdio_client": runs when the generator is
\* resumed after the caller's body (normally or with its exception) and when
\* line 30 raises.
Release ==
    /\ pc = "release"
    /\ trans' = [trans EXCEPT ![cur] = "released"]
    /\ releases' = [releases EXCEPT ![cur] = @ + 1]
    /\ pc' = "finish"
    /\ UNCHANGED <<kind, cur, init_result, sent, handle, exc, escaped, ret,
                   ping_result, list_in, list_ret, response, messages,
                   reports,
                   op_failed, chat_in,
                   corrvars>>

\* ------------------------------------------------------------ the bodies
\* Mutation of Usable: the body runs with whatever was yielded.
UsableUnchecked == handle # "unset"

\* "if read_stream and write_stream": lines 40, 113, 131, 143, 155.
Usable == handle = "streams"

\* Mutation of BodySkip: process_chat appends the user turn before it checks
\* the pair.
BodySkipAppendsUserTurn ==
    /\ pc = "body"
    /\ ~Usable
    /\ messages' = IF kind = "chat" THEN Append(messages, "user") ELSE messages
    /\ pc' = "release"
    /\ UNCHANGED <<kind, cur, trans, releases, init_result, sent, handle,
                   exc, escaped, ret, ping_result, list_in, list_ret,
                   response, reports, op_failed, chat_in, corrvars>>

\* Mutation of BodySkip: the empty-handed body leaves without the scope's
\* exit running, and the Transport stays with it.
BodySkipLeaks ==
    /\ pc = "body"
    /\ ~Usable
    /\ pc' = "finish"
    /\ UNCHANGED <<kind, cur, trans, releases, init_result, sent, handle,
                   exc, escaped, ret, ping_result, list_in, list_ret,
                   response, messages, reports, op_failed, chat_in,
                   corrvars>>

\* The check fails: the body does nothing and the scope ends.
BodySkip ==
    /\ pc = "body"
    /\ ~Usable
    /\ pc' = "release"
    /\ UNCHANGED <<kind, cur, trans, releases, init_result, sent, handle,
                   exc, escaped, ret, ping_result, list_in, list_ret,
                   response, messages, reports,
                   op_failed, chat_in,
                   corrvars>>

\* -- ping: process_ping (lines 153-160), ensure_connection_async (40-44)
PingInputs == {"pong", "timeout", "transport_error"}

\* How an operation failed, from what its exchange produced.
FailureOf(i) ==
    IF i \in {"pong", "some", "empty", "ok"} THEN "none"
    ELSE IF i \in {"transport_error", "closed"} THEN "transport"
    ELSE "local"

\* send_ping's result for what the exchange produced: true for a well-formed
\* response, false for a timeout or a transport error.
SendPing(i) == IF i = "pong" THEN "true" ELSE "false"

\* lines 42, 156: the ping request is written.
BodyPing ==
    /\ pc = "body"
    /\ kind \in {"ping", "ensure"}
    /\ Usable
    /\ Send(cur, "ping")
    /\ pc' = "await_ping"
    /\ UNCHANGED <<kind, cur, trans, releases, init_result, handle, exc,
                   escaped, ret, ping_result, list_in, list_ret, response,
                   messages, reports,
                   op_failed, chat_in,
                   corrvars>>

\* Mutation of PingReply: a false ping raises instead of being reported.
PingReplyRaisesOnFalse(i) ==
    /\ pc = "await_ping"
    /\ ping_result' = SendPing(i)
    /\ exc' = IF SendPing(i) = "true" THEN exc ELSE "error"
    /\ reports' = IF kind = "ping" /\ SendPing(i) = "true"
                  THEN reports \cup {"responsive"} ELSE reports
    /\ op_failed' = FailureOf(i)
    /\ pc' = "release"
    /\ UNCHANGED <<kind, cur, trans, releases, init_result, sent, handle,
                   escaped, ret, list_in, list_ret, response, messages, chat_in,
                   corrvars>>

\* lines 156-160 (process_ping) and 42-44 (ensure_connection_async): the
\* result arrives; process_ping reports it, and the body ends.
PingReply(i) ==
    /\ pc = "await_ping"
    /\ ping_result' = SendPing(i)
    /\ reports' = IF kind = "ping"
                  THEN reports \cup {IF SendPing(i) = "true"
                                     THEN "responsive" ELSE "not_responding"}
                  ELSE reports
    /\ op_failed' = FailureOf(i)
    /\ pc' = "release"
    /\ UNCHANGED <<kind, cur, trans, releases, init_result, sent, handle,
                   exc, escaped, ret, list_in, list_ret, response, messages, chat_in,
                   corrvars>>

\* -- lists: process_tools (130-134), process_resources (142-146)
\* What send_tools_list / send_resources_list produce: a response naming
\* items, one naming none, a dict without the key, a non-dict (None), or an
\* exception (the transport closed mid-exchange).
ListInputs == {"some", "empty", "nokey", "nondict", "closed"}

ListMethod(k) == IF k = "tools" THEN "tools/list" ELSE "resources/list"

\* lines 59-64, 67-72: response.get(key, []) in a try whose handler returns [].
ListReturn(i) == IF i = "some" THEN <<"item">> ELSE <<>>

\* lines 62-63, 70-71: the handler reports; a missing key raises nothing.
ListRaises(i) == i \in {"nondict", "closed"}

ListError(k) == IF k = "tools" THEN "list_tools_error" ELSE "list_resources_error"

\* lines 132, 144 with 60, 68: the list request is written.
BodyList ==
    /\ pc = "body"
    /\ kind \in {"tools", "resources"}
    /\ Usable
    /\ Send(cur, ListMethod(kind))
    /\ pc' = "await_list"
    /\ UNCHANGED <<kind, cur, trans, releases, init_result, handle, exc,
                   escaped, ret, ping_result, list_in, list_ret, response,
                   messages, reports,
                   op_failed, chat_in,
                   corrvars>>

\* Mutation of ListReply: the handler closes the Transport when the list
\* operation fails.
ListReplyTearsDown(i) ==
    /\ pc = "await_list"
    /\ list_in' = i
    /\ list_ret' = ListReturn(i)
    /\ reports' = IF ListRaises(i) THEN reports \cup {ListError(kind)} ELSE reports
    /\ trans' = IF ListRaises(i) THEN [trans EXCEPT ![cur] = "released"] ELSE trans
    /\ releases' = IF ListRaises(i) THEN [releases EXCEPT ![cur] = @ + 1] ELSE releases
    /\ op_failed' = FailureOf(i)
    /\ pc' = "release"
    /\ UNCHANGED <<kind, cur, init_result, sent, handle, exc, escaped, ret,
                   ping_result, response, messages, chat_in,
                   corrvars>>

\* list_tools_async / list_resources_async return; the items are rendered
\* and the body ends.
ListReply(i) ==
    /\ pc = "await_list"
    /\ list_in' = i
    /\ list_ret' = ListReturn(i)
    /\ reports' = IF ListRaises(i) THEN reports \cup {ListError(kind)} ELSE reports
    /\ op_failed' = FailureOf(i)
    /\ pc' = "release"
    /\ UNCHANGED <<kind, cur, trans, releases, init_result, sent, handle,
                   exc, escaped, ret, ping_result, response, messages, chat_in,
                   corrvars>>

\* -- chat: process_chat (112-122), handle_chat_async (49-56)
\* handle_chat_mode discovers the tools first and invokes tools after that:
\* the method of its next request, n requests already written.
ChatMethod(n) == IF n = 0 THEN "tools/list" ELSE "tools/call"

ChatOutcomes == {"text", "empty", "error"}

\* Mutation of BodyChat: the user turn is not appended.
BodyChatNoUserTurn ==
    /\ pc = "body"
    /\ kind = "chat"
    /\ Usable
    /\ pc' = "await_chat"
    /\ UNCHANGED <<kind, cur, trans, releases, init_result, sent, handle,
                   exc, escaped, ret, ping_result, list_in, list_ret,
                   response, messages, reports, op_failed, chat_in, corrvars>>

\* lines 114-119: the user turn is appended, then handle_chat_async is awaited.
BodyChat ==
    /\ pc = "body"
    /\ kind = "chat"
    /\ Usable
    /\ messages' = Append(messages, "user")
    /\ pc' = "await_chat"
    /\ UNCHANGED <<kind, cur, trans, releases, init_result, sent, handle,
                   exc, escaped, ret, ping_result, list_in, list_ret,
                   response, reports,
                   op_failed, chat_in,
                   corrvars>>

\* An operation handle_chat_mode issues succeeds or fails locally (the server
\* rejects the tool, the invocation fails, the response is malformed).
ChatOpInputs == {"ok", "rejected"}

\* line 52: handle_chat_mode issues Protocol Operations on the streams, one
\* at a time, and goes on after one that failed locally.
ChatOp(i) ==
    /\ pc = "await_chat"
    /\ Len(sent[cur]) < 1 + MaxChatOps
    /\ Send(cur, ChatMethod(Len(sent[cur]) - 1))
    /\ op_failed' = IF FailureOf(i) = "none" THEN op_failed ELSE FailureOf(i)
    /\ UNCHANGED <<pc, kind, cur, trans, releases, init_result, handle, exc,
                   escaped, ret, ping_result, list_in, list_ret, response,
                   messages, reports, chat_in,
                   corrvars>>

\* lines 53-56 and 120-122: handle_chat_async returns the text, or None
\* after reporting an exception; a truthy response is appended.
ChatReturn(o) ==
    /\ pc = "await_chat"
    /\ chat_in' = o
    /\ response' = IF o = "text" THEN "text" ELSE "none"
    /\ reports' = IF o = "error" THEN reports \cup {"chat_error"} ELSE reports
    /\ messages' = IF o = "text" THEN Append(messages, "assistant") ELSE messages
    /\ pc' = "release"
    /\ UNCHANGED <<kind, cur, trans, releases, init_result, sent, handle,
                   exc, escaped, ret, ping_result, list_in, list_ret,
                   op_failed,
                   corrvars>>

\* Mutation of BodyCancel: the cancellation leaves the scope without passing
\* through the exit of "async with stdio_client".
BodyCancelSkipsTeardown ==
    /\ pc \in {"await_ping", "await_list", "await_chat"}
    /\ exc' = "cancel"
    /\ pc' = "finish"
    /\ UNCHANGED <<kind, cur, trans, releases, init_result, sent, handle,
                   escaped, ret, ping_result, list_in, list_ret, response,
                   messages, reports, op_failed, chat_in,
                   corrvars>>

\* -- cancellation of the task while an operation of the body is pending:
\* CancelledError is no Exception, so lines 45, 54, 62, 70 do not catch it.
BodyCancel ==
    /\ pc \in {"await_ping", "await_list", "await_chat"}
    /\ exc' = "cancel"
    /\ pc' = "release"
    /\ UNCHANGED <<kind, cur, trans, releases, init_result, sent, handle,
                   escaped, ret, ping_result, list_in, list_ret, response,
                   messages, reports,
                   op_failed, chat_in,
                   corrvars>>

\* -- the flow ends
\* Mutation of EnsureFinish: no handler, an Exception leaves the function.
EnsureFinishNoExcept ==
    /\ pc = "finish"
    /\ kind = "ensure"
    /\ IF exc # "none"
       THEN /\ escaped' = exc
            /\ UNCHANGED <<ret, reports>>
       ELSE /\ ret' = IF ping_result = "true" THEN "pair" ELSE "nullpair"
            /\ UNCHANGED <<escaped, reports>>
    /\ exc' = "none"
    /\ pc' = "done"
    /\ UNCHANGED <<kind, cur, trans, releases, init_result, sent, handle,
                   ping_result, list_in, list_ret, response, messages,
                   op_failed, chat_in, corrvars>>

\* ensure_connection_async, lines 44-47: the pair if the ping succeeded; an
\* Exception is reported and (None, None) returned; otherwise (None, None).
EnsureFinish ==
    /\ pc = "finish"
    /\ kind = "ensure"
    /\ IF exc = "error"
       THEN /\ reports' = reports \cup {"connection_error"}
            /\ ret' = "nullpair"
            /\ escaped' = escaped
       ELSE IF exc = "cancel"
       THEN /\ escaped' = "cancel"
            /\ UNCHANGED <<ret, reports>>
       ELSE /\ ret' = IF ping_result = "true" THEN "pair" ELSE "nullpair"
            /\ UNCHANGED <<escaped, reports>>
    /\ exc' = "none"
    /\ pc' = "done"
    /\ UNCHANGED <<kind, cur, trans, releases, init_result, sent, handle,
                   ping_result, list_in, list_ret, response, messages,
                   op_failed, chat_in,
                   corrvars>>

\* process_chat / process_tools / process_resources / process_ping under
\* asyncio.run (lines 124, 136, 148, 162): nothing catches, an exception
\* leaves the flow.
ProcessFinish ==
    /\ pc = "finish"
    /\ kind # "ensure"
    /\ escaped' = exc
    /\ exc' = "none"
    /\ pc' = "done"
    /\ UNCHANGED <<kind, cur, trans, releases, init_result, sent, handle,
                   ret, ping_result, list_in, list_ret, response, messages,
                   reports,
                   op_failed, chat_in,
                   corrvars>>

\* A step of the running flow.
FlowStep ==
    \/ \E o \in {"ok"} \cup Raises : LoadConfig(o)
    \/ \E o \in {"ok"} \cup Raises : Acquire(o)
    \/ SendInitialize
    \/ InitOk
    \/ InitFalsy
    \/ \E o \in Raises : InitRaise(o)
    \/ Release
    \/ BodySkip
    \/ BodyPing
    \/ \E i \in PingInputs : PingReply(i)
    \/ BodyList
    \/ \E i \in ListInputs : ListReply(i)
    \/ BodyChat
    \/ \E i \in ChatOpInputs : ChatOp(i)
    \/ \E o \in ChatOutcomes : ChatReturn(o)
    \/ BodyCancel
    \/ EnsureFinish
    \/ ProcessFinish

Next ==
    \/ \E k \in Kinds : Start(k)
    \/ FlowStep

Spec == Init /\ [][Next]_vars

\* ------------------------------------------------- request correlation
\* The message layer under send_initialize, send_ping, send_tools_list and
\* send_resources_list (imported, lines 9-15): requests carry fresh
\* correlation ids, several may be pending, and responses arrive in any
\* order, duplicates and stale ones among them.

\* A response: the correlation id it carries, and the request it is the
\* server's answer to (0: to none, a stale or made-up reply).
Responses == [id : 0..MaxIds, answers : 0..MaxIds]

\* The server answers a pending request under that request's id; whatever
\* else arrives carries an id that is not pending.
MayArrive(r) == r.id \in corr_pending => r.answers = r.id

\* Mutation of MatchRequest: an arriving response completes the oldest
\* pending request.
MatchOldestPending(r, pending) ==
    IF pending = {} THEN 0
    ELSE CHOOSE k \in pending : \A j \in pending : k <= j

\* The pending request a response completes: the one with its id, or none (0).
MatchRequest(r, pending) == IF r.id \in pending THEN r.id ELSE 0

\* A request is written under a fresh id.
CorrSend ==
    /\ corr_next <= MaxIds
    /\ corr_pending' = corr_pending \cup {corr_next}
    /\ corr_next' = corr_next + 1
    /\ UNCHANGED <<corr_done, corr_order, corr_ignored>>
    /\ UNCHANGED flowvars

\* A response arrives: it completes the request it matches, or is ignored.
CorrReceive(r) ==
    /\ MayArrive(r)
    /\ UNCHANGED flowvars
    /\ LET k == MatchRequest(r, corr_pending) IN
       IF k # 0
       THEN /\ corr_done' = [corr_done EXCEPT ![k] = r.answers]
            /\ corr_pending' = corr_pending \ {k}
            /\ corr_order' = Append(corr_order, k)
            /\ UNCHANGED <<corr_next, corr_ignored>>
       ELSE /\ corr_ignored < MaxIgnored
            /\ corr_ignored' = corr_ignored + 1
            /\ UNCHANGED <<corr_next, corr_pending, corr_done, corr_order>>

CorrNext ==
    \/ CorrSend
    \/ \E r \in Responses : CorrReceive(r)

CorrSpec == Init /\ [][CorrNext]_vars

\* asyncio.run drives the flow's coroutine until it has ended, and every
\* await of it returns, raises or times out after a bounded wait: a started
\* flow keeps taking steps.  Nothing obliges the user to start another one.
FairSpec == Spec /\ WF_vars(FlowStep)

\* ================================================================ claims
\* The scope of session s has ended: control has left "async with stdio_client".
ScopeEnded(s) == s < cur \/ (s = cur /\ pc \in {"finish", "done"})

\* The Transport of scope s was acquired (whatever happened to it since).
Launched(s) == trans[s] # "none"

\* The handshake of scope s raised (or was cancelled) instead of returning.
HandshakeRaised(s) ==
    /\ s <= cur
    /\ Launched(s)
    /\ init_result[s] = "unset"
    /\ ~(s = cur /\ pc \in OpeningPcs)

\* The methods of the requests written in scope s, in order.
Methods(s) == [i \in 1..Len(sent[s]) |-> sent[s][i].method]

\* The Protocol Operations written in scope s (everything but the handshake).
Operations(s) == {i \in 1..Len(sent[s]) : sent[s][i].method # "initialize"}

\* C1: every scope whose Transport was acquired has released it exactly once
\* when the scope has ended, however it ended (normal return, exception,
\* cancellation), and not at all before: the count is 0 inside the scope, 1
\* after it, never 2.
C1_ReleasedExactlyOnce ==
    \A s \in Scopes :
        Launched(s) => releases[s] = (IF ScopeEnded(s) THEN 1 ELSE 0)

\* A scope cancelled while an operation of its body was pending has ended
\* with one release.
C1_Witness ==
    /\ pc = "done"
    /\ escaped = "cancel"
    /\ handle = "streams"
    /\ Launched(cur)
    /\ releases[cur] = 1

\* C2: when the handshake fails, no usable handle is yielded ((None, None)
\* for a falsy result, nothing at all when send_initialize raises), the
\* failure is reported (st.error, or the exception on its way to the
\* caller), no Protocol Operation is written in that scope, and the
\* Transport is released once the scope has ended.
C2_HandshakeFailure ==
    \A s \in Scopes :
        /\ init_result[s] = "falsy" =>
              /\ Operations(s) = {}
              /\ ScopeEnded(s) => trans[s] = "released" /\ releases[s] = 1
              /\ s = cur => handle = "nullpair" /\ "init_failed" \in reports
        /\ HandshakeRaised(s) =>
              /\ Operations(s) = {}
              /\ ScopeEnded(s) => trans[s] = "released" /\ releases[s] = 1
              /\ s = cur =>
                    /\ handle = "unset"
                    /\ \/ exc # "none"
                       \/ escaped # "none"
                       \/ "connection_error" \in reports

\* A flow whose handshake returned a falsy result has run to its end.
C2_Witness ==
    /\ pc = "done"
    /\ init_result[cur] = "falsy"
    /\ handle = "nullpair"
    /\ releases[cur] = 1

\* C3 (as claimed): a non-null pair returned by ensure_connection_async
\* belongs to a Transport that is still acquired.
C3_ReturnedPairIsLive ==
    (kind = "ensure" /\ ret = "pair") => trans[cur] = "acquired"

\* C4: a Protocol Operation is written to a Transport only while its Session
\* is Ready; a Session whose handshake did not succeed, or that is Closed,
\* gets none.
C4_OperationsOnlyWhenReady ==
    \A s \in Scopes :
        /\ \A i \in Operations(s) : sent[s][i].state = "Ready"
        /\ init_result[s] # "ok" => Operations(s) = {}
        /\ (s = cur /\ pc \in {"await_ping", "await_list", "await_chat"}) =>
              SessionState(s) = "Ready"

\* One scope failed its handshake and got no operation; another, Ready, got one.
C4_Witness ==
    \E s, r \in Scopes :
        /\ init_result[s] = "falsy" /\ ScopeEnded(s) /\ Len(sent[s]) = 1
        /\ Operations(r) # {}

\* C5: on every Transport the first request is initialize, it is the only
\* initialize, and its exchange has completed (successfully) before any
\* other request is written.
C5_InitializeFirstAndOnce ==
    \A s \in Scopes :
        /\ sent[s] # <<>> => sent[s][1].method = "initialize"
        /\ \A i \in 2..Len(sent[s]) : sent[s][i].method # "initialize"
        /\ Len(sent[s]) > 1 => init_result[s] = "ok"
        /\ (s = cur /\ pc = "await_init") => Methods(s) = <<"initialize">>

\* A Transport that carried the handshake and two operations after it.
C5_Witness ==
    \E s \in Scopes : Len(sent[s]) = 3 /\ sent[s][1].method = "initialize"

Transitions ==
    { <<"Unopened", "Opening">>, <<"Opening", "Ready">>,
      <<"Opening", "Failed">>, <<"Ready", "Closed">> }

\* C6: a session changes state only along Unopened -> Opening ->
\* {Ready, Failed} and Ready -> Closed: Ready is entered only from Opening
\* (by a successful handshake), and nothing leaves Closed or Failed.
C6_StateMachine ==
    [][ \A s \in Scopes :
          LET a == SessionState(s)
              b == SessionStateOf(cur', pc', init_result', trans', s)
          IN  a # b => /\ <<a, b>> \in Transitions
                       /\ b = "Ready" => init_result'[s] = "ok" ]_vars

\* A Closed session beside a later one that is Ready.
C6_Witness ==
    \E s, r \in Scopes :
        s < r /\ SessionState(s) = "Closed" /\ SessionState(r) = "Ready"

\* C7 (as claimed): while a Failed session's caller is in its scope body,
\* the Transport has already been released.
C7_FailedHoldsNothingInBody ==
    \A s \in Scopes :
        (SessionState(s) = "Failed" /\ s = cur /\ pc = "body") =>
            trans[s] # "acquired"

\* C7 (amended): a Failed session gets no Protocol Operation; the Transport
\* it acquired is still held while control is in the caller's scope body,
\* and it has been released, once, when the scope has ended, after which
\* nothing is held.
C7_FailedHeldUntilScopeEnd ==
    \A s \in Scopes :
        SessionState(s) = "Failed" =>
            /\ Operations(s) = {}
            /\ (s = cur /\ pc = "body") =>
                  trans[s] = "acquired" /\ releases[s] = 0
            /\ ScopeEnded(s) =>
                  /\ trans[s] # "acquired"
                  /\ releases[s] = (IF Launched(s) THEN 1 ELSE 0)

\* A Failed session in its caller's body, Transport held.
C7_Witness ==
    /\ pc = "body"
    /\ SessionState(cur) = "Failed"
    /\ trans[cur] = "acquired"

\* The body may issue a Protocol Operation on scope s: what the bodies check
\* before they do, on a Session that is Ready.
MayIssue(s) ==
    /\ s = cur
    /\ Usable
    /\ SessionState(s) = "Ready"
    /\ trans[s] = "acquired"
    /\ releases[s] = 0

\* C8: after a Protocol Operation failed locally (a ping timeout, a
\* malformed list response, an operation of the chat exchange rejected) and
\* until the scope's own exit, the Session is still Ready with its Transport
\* acquired, so that a further operation may be issued; every operation
\* written after such a failure found the Session Ready.
C8_FailureIsLocal ==
    /\ (op_failed = "local" /\ exc = "none"
           /\ pc \in {"await_chat", "release"}) => MayIssue(cur)
    /\ \A s \in Scopes : \A i \in Operations(s) :
          sent[s][i].after_failure = "local" => sent[s][i].state = "Ready"

\* An operation was written on a Session after an earlier one had failed
\* locally on it.
C8_Witness ==
    \E s \in Scopes : \E i \in Operations(s) :
        sent[s][i].after_failure = "local" /\ sent[s][i].state = "Ready"

\* C9: a ping issued on a Ready Session yields a boolean, and the ping flow
\* then ends on an outcome derived from it (process_ping's report,
\* ensure_connection_async's pair or (None, None)) with no exception leaving
\* the flow.
C9_PingYieldsBoolean ==
    ping_result # "unset" =>
        /\ ping_result \in {"true", "false"}
        /\ exc = "none"
        /\ escaped = "none"
        /\ kind = "ping" =>
              reports = {IF ping_result = "true"
                         THEN "responsive" ELSE "not_responding"}
        /\ (kind = "ensure" /\ pc = "done") =>
              ret = (IF ping_result = "true" THEN "pair" ELSE "nullpair")

\* A ping timed out and process_ping ended by reporting it.
C9_Witness ==
    /\ pc = "done"
    /\ kind = "ping"
    /\ ping_result = "false"
    /\ op_failed = "local"
    /\ "not_responding" \in reports

\* C10 (as claimed): a list operation whose response is malformed, or whose
\* transport closes mid-exchange, returns something the caller can tell
\* apart from the empty sequence returned when the server declares none.
C10_FailureDistinctFromEmpty ==
    list_in \in {"nokey", "nondict", "closed"} =>
        list_ret # ListReturn("empty")

\* The st.error reports of the flows.
ErrorReports ==
    {"init_failed", "connection_error", "chat_error", "list_tools_error",
     "list_resources_error", "not_responding"}

\* The running flow met a failure of config load or transport launch, of the
\* handshake, of a list operation or of the chat exchange.
FlowFailed ==
    \/ trans[cur] = "none"
    \/ init_result[cur] # "ok"
    \/ list_in \in {"nokey", "nondict", "closed"}
    \/ chat_in = "error"

\* The user was told: an st.error was emitted, or the exception left the
\* flow uncaught.
Reported == reports \cap ErrorReports # {} \/ escaped # "none"

\* C11 (as claimed): a flow that met a failure of config load, transport
\* launch, handshake, a list operation or the chat exchange has emitted an
\* error report when it ends.
C11_NoFailureSwallowed ==
    (pc = "done" /\ FlowFailed) => Reported

\* An operation of the body is pending.
PendingPcs == {"await_ping", "await_list", "await_chat"}

\* The scope was cancelled while an operation of its body was pending.
CancelledWhilePending == exc = "cancel" /\ handle = "streams"

\* C12 (as claimed): when the scope is cancelled while a Protocol Operation
\* is pending, teardown has closed the Transport and the operation has
\* failed with TransportClosed.
C12_PendingFailsAsTransportClosed ==
    CancelledWhilePending =>
        trans[cur] = "released" /\ op_failed = "transport"

\* C12 (amended): a pending Protocol Operation never stays pending forever,
\* and every scope that became Ready eventually is Closed; when the scope is
\* cancelled while an operation is pending, the operation ends with the
\* cancellation itself, the Transport still acquired, and the scope's exit
\* releases the Transport after that.
C12_PendingEndsScopeCloses ==
    /\ \A s \in Scopes :
          (SessionState(s) = "Ready") ~> (SessionState(s) = "Closed")
    /\ (pc \in PendingPcs) ~> (pc = "done")
    /\ [](CancelledWhilePending =>
            /\ op_failed # "transport"
            /\ pc = "release" => trans[cur] = "acquired"
            /\ pc = "finish" => trans[cur] = "released")

\* A scope cancelled while its operation was pending has been closed.
C12_Witness ==
    /\ CancelledWhilePending
    /\ pc = "finish"
    /\ SessionState(cur) = "Closed"

\* The scopes whose Transport is acquired and not yet released.
Held == {s \in Scopes : trans[s] = "acquired"}

\* C13: across any sequence of interactions at most one Transport is
\* acquired and not yet released, it is the running scope's own, and every
\* request is written, and every Transport acquired or released, by the
\* scope the Transport was opened for, which opens no second one.
C13_OneSessionAtATime ==
    /\ [](Cardinality(Held) <= 1 /\ Held \subseteq {cur})
    /\ [][ \A s \in Scopes :
             /\ sent'[s] # sent[s] =>
                   s = cur /\ cur' = cur /\ trans[s] = "acquired"
             /\ trans'[s] # trans[s] => s = cur /\ cur' = cur
             /\ trans'[s] = "acquired" => trans[s] \in {"none", "acquired"} ]_vars

\* A second interaction holds its Transport after the first released its own.
C13_Witness ==
    \E s, r \in Scopes :
        s < r /\ trans[s] = "released" /\ releases[s] = 1 /\ trans[r] = "acquired"

\* C14: a response whose id matches no pending request is ignored: it
\* changes neither the pending requests nor anything delivered; and every
\* request that completes, before or after such a response and in whatever
\* order the responses arrive, completes with the server's answer to itself.
C14_MatchedByCorrelationId ==
    /\ [](\A k \in 1..MaxIds : corr_done[k] \in {0, k})
    /\ [](\A k \in 1..MaxIds :
            /\ k \in corr_pending => corr_done[k] = 0 /\ k < corr_next
            /\ corr_done[k] # 0 => k \notin corr_pending)
    /\ [][ corr_ignored' # corr_ignored =>
             UNCHANGED <<corr_pending, corr_done, corr_order>> ]_vars

\* Responses were ignored, and every request completed with its own answer,
\* the second before the first.
C14_Witness ==
    /\ corr_ignored = MaxIgnored
    /\ Len(corr_order) >= 2
    /\ corr_order[1] = 2
    /\ \A k \in 1..Len(corr_order) : corr_done[corr_order[k]] = corr_order[k]
    /\ corr_pending = {}
    /\ corr_next > 2

\* The chat flow has left its body, which ran with a usable handle.
ChatBodyOver ==
    kind = "chat" /\ handle = "streams" /\ pc \in {"release", "finish", "done"}

\* C15 (as claimed): between interactions every user turn of the history is
\* immediately followed by the assistant turn answering it.
C15_EveryUserTurnAnswered ==
    pc \in {"idle", "done"} =>
        \A i \in 1..Len(messages) :
            messages[i] = "user" =>
                i < Len(messages) /\ messages[i + 1] = "assistant"

\* C15 (amended): every assistant turn immediately follows the user turn it
\* answers; the user turn is appended before the exchange, and the assistant
\* turn after it only when the exchange returned a non-empty response, so a
\* chat whose completion failed, returned nothing or was cancelled leaves
\* the history ending with its unanswered user turn.
C15_AssistantFollowsUser ==
    /\ \A i \in 1..Len(messages) :
          messages[i] = "assistant" => i > 1 /\ messages[i - 1] = "user"
    /\ pc = "await_chat" =>
          messages # <<>> /\ messages[Len(messages)] = "user"
    /\ ChatBodyOver =>
          /\ messages # <<>>
          /\ messages[Len(messages)] =
                (IF chat_in = "text" THEN "assistant" ELSE "user")

\* A chat that failed, then one that was answered.
C15_Witness ==
    /\ pc = "done"
    /\ messages = <<"user", "user", "assistant">>

C17_HistoryFrame ==
    [][ messages' # messages =>
          /\ kind = "chat"
          /\ cur' = cur
          /\ init_result[cur] = "ok"
          /\ handle = "streams"
          /\ pc \in {"body", "await_chat"} ]_vars

\* A chat whose handshake failed has ended, after an earlier chat had left
\* its turns in the history.
C17_Witness ==
    /\ pc = "done"
    /\ kind = "chat"
    /\ init_result[cur] = "falsy"
    /\ messages = <<"user", "assistant">>
====
